---- MODULE Spec2Model ----
(***************************************************************************)
(* Appointment booking (src/app.py): the slot registry, the booking ledger *)
(* and the handlers that change them.  The sqlite tables are sets of rows; *)
(* every SQL statement of a function is one atomic step of the session     *)
(* that runs it, so the statements of two sessions can interleave.         *)
(***************************************************************************)
EXTENDS Integers, Sequences, FiniteSets, TLC

\* ---- bounds of the model ----
NSessions == 2      \* concurrently running script runs
NUsers == 2         \* logged-in (non-admin) users that can book
MaxSlots == 2       \* slot ids issued over a behaviour
MaxBookings == 2    \* booking ids issued over a behaviour
MaxCap == 2         \* largest capacity typed into the form
MaxDay == 2         \* dates are ordinals 1..MaxDay
MaxAvailCap == 3    \* largest capacity of the slots whose free seats are read
MaxRows == 3        \* largest number of booking rows in a ledger that is read
MaxTileSlots == 3   \* slots created while the tiling is examined
MaxUsers == 3       \* user ids issued while account creation is examined

Sessions == 1..NSessions
\* users.id of the accounts registered after the admin
Users == 2..(NUsers + 1)
Days == 1..MaxDay
Capacities_FromZero == 0..MaxCap
Capacities == 1..MaxCap

\* the admin account that owns the slots (users.id of the first account)
AdminId == 1

\* form inputs of the create_slots form, times in minutes after midnight:
\* the daily window 09:00-10:00 cut into slots of 30 minutes
StartTimes == {540}
EndTimes == {600}
Durations == {30}
DaysOfWeekInputs == {{}, {0}, {1}}

\* the values a submitted "Create slots" form holds
Forms ==
    [sd : Days, ed : Days, st : StartTimes, et : EndTimes, dur : Durations,
     cap : Capacities, dow : DaysOfWeekInputs]

\* values of `created` when no count is shown: nothing submitted yet, and
\* the message "End date must be >= start date"
NoReport == -1
DateError == -2

\* the form as first rendered: one day, 09:00 to 10:00, 30 minutes, capacity 1
DefaultForm == [sd |-> 1, ed |-> 1, st |-> 540, et |-> 600, dur |-> 30, cap |-> 1, dow |-> {0}]

VARIABLES
    slots,          \* table slots: rows [id, start_ts, end_ts, capacity, created_by]
    bookings,       \* table bookings: rows [id, slot_id, user_id, status]
    nextSlotId,     \* AUTOINCREMENT sequence of slots
    nextBookingId,  \* AUTOINCREMENT sequence of bookings
    pc,             \* per session: the statement it executes next
    a_slot,         \* per session: slot_id argument of the running call
    a_user,         \* per session: user_id argument of the running call
    capacity,       \* per session: book_slot's local `capacity`
    result,         \* per session: message book_slot returned to its caller
    form,           \* the values of the "Create slots" form whose tiling is examined
    created,        \* the count "Create slots" reports, NoReport before a report
    settings,       \* table settings: rows [key, value], key is the primary key
    mail,           \* per session: smtp_msg of the running "Book now", "none" before
    connected,      \* per session: smtplib.SMTP(host, port) was called in this run
    users,          \* table users: rows [id, email, is_admin], email is UNIQUE
    nextUserId,     \* AUTOINCREMENT sequence of users
    a_email         \* per session: the text in the email field of the submitted form

db == <<slots, bookings, nextSlotId, nextBookingId>>
sess == <<pc, a_slot, a_user, capacity, result>>
\* the state outside the slot registry, the ledger and the running calls
accounts == <<users, nextUserId, a_email>>
aux == <<form, created, settings, mail, connected, users, nextUserId, a_email>>
vars == <<slots, bookings, nextSlotId, nextBookingId, pc, a_slot, a_user, capacity, result,
          form, created, settings, mail, connected, users, nextUserId, a_email>>

\* ---- timestamps ----
\* datetime.combine(d, t): a naive local timestamp, here <<date ordinal, minute>>
Combine(d, t) == <<d, t>>

\* minute of time.min (00:00) and of time.max (23:59:59.999999)
TimeMinMinute == 0
TimeMaxMinute == 1439

\* start_ts BETWEEN datetime.combine(d, time.min) AND datetime.combine(d, time.max),
\* compared as the ISO strings compare: date first, then time of day
TsLeq(a, b) == a[1] < b[1] \/ (a[1] = b[1] /\ a[2] <= b[2])

TsBetween(ts, lo, hi) == TsLeq(lo, ts) /\ TsLeq(ts, hi)

\* date.weekday(): Monday = 0; ordinal 1 is a Monday
Weekday(d) == (d - 1) % 7

\* ---- queries ----
\* SELECT capacity FROM slots WHERE id=?
SlotRows(sl, sid) == {s \in sl : s.id = sid}

\* SELECT COUNT(*) FROM bookings WHERE slot_id=? AND status='booked'
CountBooked(bk, sid) == Cardinality({b \in bk : b.slot_id = sid /\ b.status = "booked"})

\* SELECT COUNT(*) FROM bookings WHERE slot_id=? AND user_id=? AND status='booked'
CountUserBooked(bk, sid, uid) ==
    Cardinality({b \in bk : b.slot_id = sid /\ b.user_id = uid /\ b.status = "booked"})

\* the comparison off by one: a full slot still takes one more booking
SlotIsFull_OffByOne(booked, cap) == booked > cap

\* if booked >= capacity: return False, "Slot is full"
SlotIsFull(booked, cap) == booked >= cap

\* the duplicate check left out
AlreadyBooked_Never(own) == FALSE

\* if c.fetchone()[0] > 0: return False, "You already have a booking for this slot"
AlreadyBooked(own) == own > 0

Max(a, b) == IF a >= b THEN a ELSE b

\* the floor at zero left out
slot_available_seats_NoFloor(bk, sid, cap) == cap - CountBooked(bk, sid)

\* every row of the slot counted, whatever its status
slot_available_seats_AllRows(bk, sid, cap) ==
    Max(0, cap - Cardinality({b \in bk : b.slot_id = sid}))

\* slot_available_seats(slot_id, capacity)
slot_available_seats(bk, sid, cap) == Max(0, cap - CountBooked(bk, sid))

\* ORDER BY start_ts, rows of equal start in rowid order
RowBefore(x, y) ==
    /\ TsLeq(x.start_ts, y.start_ts)
    /\ x.start_ts = y.start_ts => x.id <= y.id

RECURSIVE OrderByStart(_)
OrderByStart(rows) ==
    IF rows = {} THEN <<>>
    ELSE LET first == CHOOSE x \in rows : \A y \in rows : RowBefore(x, y)
         IN <<first>> \o OrderByStart(rows \ {first})

\* get_slots_by_date(d): the slots that start on day d, each with its free seats
get_slots_by_date(sl, bk, d) ==
    LET rows == OrderByStart({s \in sl : TsBetween(s.start_ts, Combine(d, TimeMinMinute),
                                                   Combine(d, TimeMaxMinute))})
    IN [i \in 1..Len(rows) |->
          [id |-> rows[i].id, start |-> rows[i].start_ts, end |-> rows[i].end_ts,
           capacity |-> rows[i].capacity, created_by |-> rows[i].created_by,
           available |-> slot_available_seats(bk, rows[i].id, rows[i].capacity)]]

\* bookings b JOIN slots s ON b.slot_id = s.id [WHERE s.created_by = ?]
JoinedRows(sl, bk, admin_only, admin_id) ==
    {[id |-> b.id, slot_id |-> b.slot_id, start_ts |-> s.start_ts, end_ts |-> s.end_ts,
      user_id |-> b.user_id, status |-> b.status] :
        <<b, s>> \in {x \in bk \X sl :
                        /\ x[1].slot_id = x[2].id
                        /\ admin_only => x[2].created_by = admin_id}}

\* list_bookings(admin_only, admin_id)
list_bookings(sl, bk, admin_only, admin_id) ==
    LET rows == OrderByStart(JoinedRows(sl, bk, admin_only, admin_id))
    IN [i \in 1..Len(rows) |->
          [booking_id |-> rows[i].id, slot_id |-> rows[i].slot_id, start |-> rows[i].start_ts,
           end |-> rows[i].end_ts, status |-> rows[i].status]]

\* ---- statements that write ----
\* a canceled row of the same slot and user is switched back instead of a new row
InsertBooking_Reactivate(bk, bid, sid, uid) ==
    IF \E b \in bk : b.slot_id = sid /\ b.user_id = uid /\ b.status = "canceled"
    THEN {IF b.slot_id = sid /\ b.user_id = uid THEN [b EXCEPT !.status = "booked"] ELSE b : b \in bk}
    ELSE bk \cup {[id |-> bid, slot_id |-> sid, user_id |-> uid, status |-> "booked"]}

\* INSERT INTO bookings (...,status) VALUES (...,'booked')
InsertBooking(bk, bid, sid, uid) ==
    bk \cup {[id |-> bid, slot_id |-> sid, user_id |-> uid, status |-> "booked"]}

\* the status flipped instead of set
UpdateCanceled_Toggle(bk, bid) ==
    {IF b.id = bid
     THEN [b EXCEPT !.status = IF b.status = "booked" THEN "canceled" ELSE "booked"]
     ELSE b : b \in bk}

\* UPDATE bookings SET status='canceled' WHERE id=?
UpdateCanceled(bk, bid) ==
    {IF b.id = bid THEN [b EXCEPT !.status = "canceled"] ELSE b : b \in bk}

\* only the booked rows deleted, the canceled ones left behind
DeleteBookingsOfSlot_BookedOnly(bk, sid) ==
    {b \in bk : ~(b.slot_id = sid /\ b.status = "booked")}

\* DELETE FROM bookings WHERE slot_id=?
DeleteBookingsOfSlot(bk, sid) == {b \in bk : b.slot_id # sid}

\* DELETE FROM slots WHERE id=?
DeleteSlot(sl, sid) == {s \in sl : s.id # sid}

\* ---- settings and the confirmation email ----
SmtpKeys == {"smtp_host", "smtp_port", "smtp_user", "smtp_pass", "from_email"}

\* texts typed into the SMTP form: a field left blank or filled in; the port
\* field holds a number or something else
FieldTexts == {"", "x"}
PortTexts == {"", "587", "abc"}

SmtpForms == {f \in [SmtpKeys -> FieldTexts \cup PortTexts] :
                 /\ f["smtp_port"] \in PortTexts
                 /\ \A k \in SmtpKeys \ {"smtp_port"} : f[k] \in FieldTexts}

\* INSERT OR REPLACE INTO settings (key, value)
set_setting(st, key, value) ==
    {r \in st : r.key # key} \cup {[key |-> key, value |-> value]}

\* get_setting(key): the fetched values, none when the key has no row
get_setting(st, key) == {r.value : r \in {q \in st : q.key = key}}

\* Python truth of a fetched value: a row exists and its text is not empty
Truthy(v) == v # {} /\ v # {""}

\* only the host is looked at
Configured_HostOnly(st) == Truthy(get_setting(st, "smtp_host"))

\* host and port and username and password and from_addr
Configured(st) ==
    /\ Truthy(get_setting(st, "smtp_host"))
    /\ Truthy(get_setting(st, "smtp_port"))
    /\ Truthy(get_setting(st, "smtp_user"))
    /\ Truthy(get_setting(st, "smtp_pass"))
    /\ Truthy(get_setting(st, "from_email"))

\* int(port) succeeds
IsNumber(v) == v = {"587"}

\* what send_email_smtp can return with the settings st, and whether
\* smtplib.SMTP was called: the server decides between success and an error
SendOutcomes(st) ==
    IF ~Configured(st)
    THEN {[msg |-> "SMTP not configured", conn |-> FALSE]}
    ELSE IF ~IsNumber(get_setting(st, "smtp_port"))
    THEN {[msg |-> "error", conn |-> FALSE]}
    ELSE {[msg |-> "Email sent", conn |-> TRUE], [msg |-> "error", conn |-> TRUE]}

\* ---- accounts ----
\* texts typed into an email field, as sequences of characters
Texts == {<<>>, <<"a">>, <<"A">>, <<" ", "a">>, <<"b">>, <<"B", " ">>}

RECURSIVE StripLeft(_)
StripLeft(s) == IF s # <<>> /\ Head(s) = " " THEN StripLeft(Tail(s)) ELSE s

RECURSIVE StripRight(_)
StripRight(s) ==
    IF s # <<>> /\ s[Len(s)] = " " THEN StripRight(SubSeq(s, 1, Len(s) - 1)) ELSE s

\* str.strip()
Strip(s) == StripRight(StripLeft(s))

LowerChar(ch) == IF ch = "A" THEN "a" ELSE IF ch = "B" THEN "b" ELSE ch

\* the text passed on as typed
Lower_AsTyped(s) == s

\* str.lower()
Lower(s) == [i \in 1..Len(s) |-> LowerChar(s[i])]

\* SELECT COUNT(*) FROM users
user_count(us) == Cardinality(us)

\* ---- the create_slots form handler ----
\* inner while loop: the tiles of one day, from dt_cursor on
RECURSIVE DayTiles(_, _, _, _)
DayTiles(d, cursor, endt, dur) ==
    IF TsLeq(Combine(d, cursor + dur), Combine(d, endt))
    THEN <<[start_ts |-> Combine(d, cursor), end_ts |-> Combine(d, cursor + dur)]>>
         \o DayTiles(d, cursor + dur, endt, dur)
    ELSE <<>>

\* outer while loop: cur_date from start_date to end_date
RECURSIVE RangeTiles(_, _, _, _, _, _)
RangeTiles(cur, endd, st, et, dur, allowed) ==
    IF cur <= endd
    THEN (IF Weekday(cur) \in allowed THEN DayTiles(cur, st, et, dur) ELSE <<>>)
         \o RangeTiles(cur + 1, endd, st, et, dur, allowed)
    ELSE <<>>

\* an empty selection taken as "no day" instead of "all days"
Allowed_NoDefault(days_of_week) == days_of_week

\* allowed = set(dow_map[d] for d in days_of_week) if days_of_week else set(range(7))
Allowed(days_of_week) == IF days_of_week # {} THEN days_of_week ELSE 0..6

\* create_slot, once per tile, each with the next id of the sequence
CreatedSlots(tiles, firstId, cap, by) ==
    {[id |-> firstId + k - 1, start_ts |-> tiles[k].start_ts, end_ts |-> tiles[k].end_ts,
      capacity |-> cap, created_by |-> by] : k \in 1..Len(tiles)}

\* the admin and the users have their accounts, with the emails "a", "aa", ...;
\* no SMTP settings saved, no confirmation under way
EnvInit ==
    /\ settings = {}
    /\ mail = [t \in Sessions |-> "none"]
    /\ connected = [t \in Sessions |-> FALSE]
    /\ users = {[id |-> i, email |-> [k \in 1..i |-> "a"], is_admin |-> (i = AdminId)] :
                   i \in {AdminId} \cup Users}
    /\ nextUserId = NUsers + 2
    /\ a_email = [t \in Sessions |-> <<>>]

\* outside the sweeps whose tiling is examined the form keeps its first values
\* and the submitted values are chosen at the click
AuxInit ==
    /\ form = DefaultForm
    /\ created = NoReport
    /\ EnvInit

Init ==
    /\ slots = {}
    /\ bookings = {}
    /\ nextSlotId = 1
    /\ nextBookingId = 1
    /\ pc = [t \in Sessions |-> "idle"]
    /\ a_slot = [t \in Sessions |-> 0]
    /\ a_user = [t \in Sessions |-> 0]
    /\ capacity = [t \in Sessions |-> 0]
    /\ result = [t \in Sessions |-> "none"]
    /\ AuxInit

\* the handler of "Create slots" for the submitted values f: its create_slot calls
create_slots(t, f) ==
    /\ pc[t] = "idle"
    /\ IF f.ed < f.sd
       THEN UNCHANGED <<slots, nextSlotId>>
       ELSE LET tiles == RangeTiles(f.sd, f.ed, f.st, f.et, f.dur, Allowed(f.dow))
            IN /\ slots' = slots \cup CreatedSlots(tiles, nextSlotId, f.cap, AdminId)
               /\ nextSlotId' = nextSlotId + Len(tiles)
    /\ UNCHANGED <<bookings, nextBookingId, sess>>

\* `created` at st.success: one increment per create_slot call
CreatedCount(f) ==
    IF f.ed < f.sd THEN DateError
    ELSE Len(RangeTiles(f.sd, f.ed, f.st, f.et, f.dur, Allowed(f.dow)))

\* "Create slots": the whole sweep over the date range; the message is shown
\* and the script run ends.  At most MaxSlots ids are issued.
CreateSlots(t) ==
    \E f \in Forms :
        /\ create_slots(t, f)
        /\ nextSlotId' - 1 <= MaxSlots
        /\ UNCHANGED aux

\* book_slot, statement 1: fetch the slot's capacity
BookFetch(t, sid, uid) ==
    /\ pc[t] = "idle"
    /\ a_slot' = [a_slot EXCEPT ![t] = sid]
    /\ a_user' = [a_user EXCEPT ![t] = uid]
    /\ IF SlotRows(slots, sid) = {}
       THEN /\ result' = [result EXCEPT ![t] = "Slot not found"]
            /\ pc' = [pc EXCEPT ![t] = "bk_ret"]
            /\ UNCHANGED capacity
       ELSE /\ capacity' = [capacity EXCEPT ![t] = (CHOOSE s \in SlotRows(slots, sid) : TRUE).capacity]
            /\ pc' = [pc EXCEPT ![t] = "bk_count"]
            /\ UNCHANGED result
    /\ UNCHANGED db
    /\ UNCHANGED aux

\* "Book now": book_slot is called with a listed slot and the logged-in user
BookCall(t) == \E sid \in 1..(nextSlotId - 1), uid \in Users : BookFetch(t, sid, uid)

\* the two validations in the other order: the duplicate check decides first
BookCount_DupFirst(t) ==
    /\ pc[t] = "bk_count"
    /\ IF AlreadyBooked(CountUserBooked(bookings, a_slot[t], a_user[t]))
       THEN /\ result' = [result EXCEPT ![t] = "You already have a booking for this slot"]
            /\ pc' = [pc EXCEPT ![t] = "bk_ret"]
       ELSE IF SlotIsFull(CountBooked(bookings, a_slot[t]), capacity[t])
       THEN /\ result' = [result EXCEPT ![t] = "Slot is full"]
            /\ pc' = [pc EXCEPT ![t] = "bk_ret"]
       ELSE /\ pc' = [pc EXCEPT ![t] = "bk_dup"]
            /\ UNCHANGED result
    /\ capacity' = [capacity EXCEPT ![t] = 0]
    /\ UNCHANGED <<db, a_slot, a_user>>
    /\ UNCHANGED aux

\* the seat is taken before the capacity check and kept when the check fails
BookCount_ReserveFirst(t) ==
    /\ pc[t] = "bk_count"
    /\ IF SlotIsFull(CountBooked(bookings, a_slot[t]), capacity[t])
       THEN /\ nextBookingId <= MaxBookings
            /\ bookings' = InsertBooking(bookings, nextBookingId, a_slot[t], a_user[t])
            /\ nextBookingId' = nextBookingId + 1
            /\ result' = [result EXCEPT ![t] = "Slot is full"]
            /\ pc' = [pc EXCEPT ![t] = "bk_ret"]
       ELSE /\ pc' = [pc EXCEPT ![t] = "bk_dup"]
            /\ UNCHANGED <<result, bookings, nextBookingId>>
    /\ capacity' = [capacity EXCEPT ![t] = 0]
    /\ UNCHANGED <<slots, nextSlotId, a_slot, a_user>>
    /\ UNCHANGED aux

\* book_slot, statement 2: count the booked rows, compare with capacity
BookCount(t) ==
    /\ pc[t] = "bk_count"
    /\ IF SlotIsFull(CountBooked(bookings, a_slot[t]), capacity[t])
       THEN /\ result' = [result EXCEPT ![t] = "Slot is full"]
            /\ pc' = [pc EXCEPT ![t] = "bk_ret"]
       ELSE /\ pc' = [pc EXCEPT ![t] = "bk_dup"]
            /\ UNCHANGED result
    /\ capacity' = [capacity EXCEPT ![t] = 0]
    /\ UNCHANGED <<db, a_slot, a_user>>
    /\ UNCHANGED aux

\* book_slot, statement 3: the caller's own booked rows in the slot
BookDup(t) ==
    /\ pc[t] = "bk_dup"
    /\ IF AlreadyBooked(CountUserBooked(bookings, a_slot[t], a_user[t]))
       THEN /\ result' = [result EXCEPT ![t] = "You already have a booking for this slot"]
            /\ pc' = [pc EXCEPT ![t] = "bk_ret"]
       ELSE /\ pc' = [pc EXCEPT ![t] = "bk_insert"]
            /\ UNCHANGED result
    /\ UNCHANGED <<db, a_slot, a_user, capacity>>
    /\ UNCHANGED aux

\* book_slot, statement 4: insert the row and commit
BookInsert(t) ==
    /\ pc[t] = "bk_insert"
    /\ nextBookingId <= MaxBookings
    /\ bookings' = InsertBooking(bookings, nextBookingId, a_slot[t], a_user[t])
    /\ nextBookingId' = nextBookingId + 1
    /\ result' = [result EXCEPT ![t] = "Booked"]
    /\ pc' = [pc EXCEPT ![t] = "bk_ret"]
    /\ UNCHANGED <<slots, nextSlotId, a_slot, a_user, capacity>>
    /\ UNCHANGED aux

\* the caller shows the returned message and the script run ends
BookReturn(t) ==
    /\ pc[t] = "bk_ret"
    /\ pc' = [pc EXCEPT ![t] = "idle"]
    /\ a_slot' = [a_slot EXCEPT ![t] = 0]
    /\ a_user' = [a_user EXCEPT ![t] = 0]
    /\ result' = [result EXCEPT ![t] = "none"]
    /\ UNCHANGED <<db, capacity>>
    /\ UNCHANGED aux

\* cancel_booking: one UPDATE and the commit; any positive id can be typed
cancel_booking(t, bid) ==
    /\ pc[t] = "idle"
    /\ bookings' = UpdateCanceled(bookings, bid)
    /\ UNCHANGED <<slots, nextSlotId, nextBookingId, sess>>
    /\ UNCHANGED aux

\* "Cancel booking" / "Cancel my booking" with the typed id
CancelBooking(t) == \E bid \in 1..MaxBookings : cancel_booking(t, bid)

\* remove_slot, statement 1: delete the slot's bookings
RemoveBookings(t) ==
    /\ pc[t] = "idle"
    /\ \E sid \in 1..MaxSlots :
         /\ a_slot' = [a_slot EXCEPT ![t] = sid]
         /\ bookings' = DeleteBookingsOfSlot(bookings, sid)
    /\ pc' = [pc EXCEPT ![t] = "rm_slot"]
    /\ UNCHANGED <<slots, nextSlotId, nextBookingId, a_user, capacity, result>>
    /\ UNCHANGED aux

\* remove_slot, statement 2: delete the slot and commit
RemoveSlot(t) ==
    /\ pc[t] = "rm_slot"
    /\ slots' = DeleteSlot(slots, a_slot[t])
    /\ pc' = [pc EXCEPT ![t] = "idle"]
    /\ a_slot' = [a_slot EXCEPT ![t] = 0]
    /\ UNCHANGED <<bookings, nextSlotId, nextBookingId, a_user, capacity, result>>
    /\ UNCHANGED aux

Step(t) ==
    \/ CreateSlots(t)
    \/ BookCall(t)
    \/ BookCount(t)
    \/ BookDup(t)
    \/ BookInsert(t)
    \/ BookReturn(t)
    \/ CancelBooking(t)
    \/ RemoveBookings(t)
    \/ RemoveSlot(t)

\* sessions interleave statement by statement
Next == \E t \in Sessions : Step(t)

Spec == Init /\ [][Next]_vars

\* one operation at a time: a session starts only when no other is inside a call
Alone(t) == \A u \in Sessions \ {t} : pc[u] = "idle"

NextSeq ==
    \E t \in Sessions :
        \/ Alone(t) /\ CreateSlots(t)
        \/ Alone(t) /\ BookCall(t)
        \/ Alone(t) /\ BookCount(t)
        \/ Alone(t) /\ BookDup(t)
        \/ Alone(t) /\ BookInsert(t)
        \/ Alone(t) /\ BookReturn(t)
        \/ Alone(t) /\ CancelBooking(t)
        \/ Alone(t) /\ RemoveBookings(t)
        \/ Alone(t) /\ RemoveSlot(t)

SpecSeq == Init /\ [][NextSeq]_vars

\* ---- N sessions race for one slot ----
\* "Create slots" has made the two slots of day 1 and the second one has been
\* deleted again: slot 1 is the only slot, nothing is booked yet
InitRace ==
    /\ \E cap \in Capacities :
         slots = DeleteSlot(CreatedSlots(DayTiles(1, 540, 600, 30), 1, cap, AdminId), 2)
    /\ bookings = {}
    /\ nextSlotId = 3
    /\ nextBookingId = 1
    /\ pc = [t \in Sessions |-> "idle"]
    /\ a_slot = [t \in Sessions |-> 0]
    /\ a_user = [t \in Sessions |-> 0]
    /\ capacity = [t \in Sessions |-> 0]
    /\ result = [t \in Sessions |-> "none"]
    /\ AuxInit

\* every session presses "Book now" on slot 1 once
RaceCall(t) == \E uid \in Users : BookFetch(t, 1, uid)

NextRace ==
    \E t \in Sessions :
        \/ RaceCall(t)
        \/ BookCount(t)
        \/ BookDup(t)
        \/ BookInsert(t)

SpecRace == InitRace /\ [][NextRace]_vars

\* ---- "Book now" with its confirmation email, one handler at a time ----
\* book_slot returned a failure: st.error(msg), the run ends
BookFail(t) ==
    /\ result[t] # "Booked"
    /\ BookReturn(t)

\* a send failure undoes the booking
Notify_Rollback(t) ==
    /\ pc[t] = "bk_ret"
    /\ result[t] = "Booked"
    /\ \E o \in SendOutcomes(settings) :
         /\ mail' = [mail EXCEPT ![t] = o.msg]
         /\ connected' = [connected EXCEPT ![t] = o.conn]
         /\ bookings' = IF o.msg = "Email sent" THEN bookings
                        ELSE UpdateCanceled(bookings, nextBookingId - 1)
    /\ pc' = [pc EXCEPT ![t] = "notified"]
    /\ UNCHANGED <<slots, nextSlotId, nextBookingId, a_slot, a_user, capacity, result>>
    /\ UNCHANGED <<form, created, settings, accounts>>

\* book_slot returned success: send_email_smtp is called
Notify(t) ==
    /\ pc[t] = "bk_ret"
    /\ result[t] = "Booked"
    /\ \E o \in SendOutcomes(settings) :
         /\ mail' = [mail EXCEPT ![t] = o.msg]
         /\ connected' = [connected EXCEPT ![t] = o.conn]
    /\ pc' = [pc EXCEPT ![t] = "notified"]
    /\ UNCHANGED <<db, a_slot, a_user, capacity, result>>
    /\ UNCHANGED <<form, created, settings, accounts>>

\* the message about the email is shown, st.experimental_rerun()
NotifyReturn(t) ==
    /\ pc[t] = "notified"
    /\ pc' = [pc EXCEPT ![t] = "idle"]
    /\ a_slot' = [a_slot EXCEPT ![t] = 0]
    /\ a_user' = [a_user EXCEPT ![t] = 0]
    /\ result' = [result EXCEPT ![t] = "none"]
    /\ mail' = [mail EXCEPT ![t] = "none"]
    /\ connected' = [connected EXCEPT ![t] = FALSE]
    /\ UNCHANGED <<db, capacity, form, created, settings, accounts>>

\* "Save SMTP settings": five set_setting calls with the texts of the form
SaveSettings(t) ==
    /\ pc[t] = "idle"
    /\ \E f \in SmtpForms :
         settings' = set_setting(set_setting(set_setting(set_setting(set_setting(
                         settings, "smtp_host", f["smtp_host"]),
                         "smtp_port", f["smtp_port"]),
                         "smtp_user", f["smtp_user"]),
                         "smtp_pass", f["smtp_pass"]),
                         "from_email", f["from_email"])
    /\ UNCHANGED <<db, sess, form, created, mail, connected, accounts>>

NextNotify ==
    \E t \in Sessions :
        \/ Alone(t) /\ RaceCall(t)
        \/ Alone(t) /\ BookCount(t)
        \/ Alone(t) /\ BookDup(t)
        \/ Alone(t) /\ BookInsert(t)
        \/ Alone(t) /\ BookFail(t)
        \/ Alone(t) /\ Notify(t)
        \/ Alone(t) /\ NotifyReturn(t)
        \/ Alone(t) /\ SaveSettings(t)

SpecNotify == InitRace /\ [][NextNotify]_vars

\* ---- first run and registration ----
InitBoot ==
    /\ slots = {}
    /\ bookings = {}
    /\ nextSlotId = 1
    /\ nextBookingId = 1
    /\ pc = [t \in Sessions |-> "idle"]
    /\ a_slot = [t \in Sessions |-> 0]
    /\ a_user = [t \in Sessions |-> 0]
    /\ capacity = [t \in Sessions |-> 0]
    /\ result = [t \in Sessions |-> "none"]
    /\ form = DefaultForm
    /\ created = NoReport
    /\ settings = {}
    /\ mail = [t \in Sessions |-> "none"]
    /\ connected = [t \in Sessions |-> FALSE]
    /\ users = {}
    /\ nextUserId = 1
    /\ a_email = [t \in Sessions |-> <<>>]

\* a script run starts: `if user_count() == 0` sends it to the admin setup,
\* otherwise it goes on to the sidebar and the main app
RunStart(t) ==
    /\ pc[t] = "idle"
    /\ pc' = [pc EXCEPT ![t] = IF user_count(users) = 0 THEN "setup" ELSE "app"]
    /\ UNCHANGED <<db, a_slot, a_user, capacity, result>>
    /\ UNCHANGED aux

\* create_user(name, email, password, is_admin) called with the typed text
\* stripped and lowercased: one INSERT under the UNIQUE constraint
create_user(t, text, is_admin) ==
    LET email == Lower(Strip(text))
    IN /\ IF \E u \in users : u.email = email
          THEN /\ result' = [result EXCEPT ![t] = "Email already registered"]
               /\ UNCHANGED <<users, nextUserId>>
          ELSE /\ nextUserId <= MaxUsers
               /\ users' = users \cup {[id |-> nextUserId, email |-> email,
                                        is_admin |-> is_admin]}
               /\ nextUserId' = nextUserId + 1
               /\ result' = [result EXCEPT ![t] = "User created"]
       /\ a_email' = [a_email EXCEPT ![t] = text]
       /\ pc' = [pc EXCEPT ![t] = "u_ret"]
       /\ UNCHANGED <<db, a_slot, a_user, capacity>>
       /\ UNCHANGED <<form, created, settings, mail, connected>>

\* "Create admin" with every field filled
SetupCreate(t) ==
    /\ pc[t] = "setup"
    /\ \E text \in Texts \ {<<>>} : create_user(t, text, TRUE)

\* the setup page is shown, nothing is submitted or a field is empty: st.stop()
SetupStop(t) ==
    /\ pc[t] = "setup"
    /\ pc' = [pc EXCEPT ![t] = "idle"]
    /\ UNCHANGED <<db, a_slot, a_user, capacity, result>>
    /\ UNCHANGED aux

\* "Create account" in the sidebar
Register(t) ==
    /\ pc[t] = "app"
    /\ \E text \in Texts : create_user(t, text, FALSE)

\* the rest of the page, past the first-run check: login, the public
\* calendar, the dashboard and the booking page
AppRun(t) ==
    /\ pc[t] = "app"
    /\ pc' = [pc EXCEPT ![t] = "idle"]
    /\ UNCHANGED <<db, a_slot, a_user, capacity, result>>
    /\ UNCHANGED aux

\* the message of create_user is shown and the run ends
UserReturn(t) ==
    /\ pc[t] = "u_ret"
    /\ pc' = [pc EXCEPT ![t] = "idle"]
    /\ result' = [result EXCEPT ![t] = "none"]
    /\ a_email' = [a_email EXCEPT ![t] = <<>>]
    /\ UNCHANGED <<db, a_slot, a_user, capacity>>
    /\ UNCHANGED <<form, created, settings, mail, connected, users, nextUserId>>

NextBoot ==
    \E t \in Sessions :
        \/ RunStart(t)
        \/ SetupCreate(t)
        \/ SetupStop(t)
        \/ Register(t)
        \/ AppRun(t)
        \/ UserReturn(t)

SpecBoot == InitBoot /\ [][NextBoot]_vars

\* ---- reading the free seats of any ledger ----
\* the rows a ledger can hold: any slot of the day, any user, any status
RowKinds == [slot_id : 1..2, user_id : Users, status : {"booked", "canceled"}]

\* ledgers of up to MaxRows rows, ids in insertion order; more booked rows than
\* seats and several booked rows of one user are there after racing book_slot calls
Ledgers ==
    UNION {{{[id |-> i, slot_id |-> f[i].slot_id, user_id |-> f[i].user_id,
              status |-> f[i].status] : i \in 1..n} : f \in [1..n -> RowKinds]} : n \in 0..MaxRows}

InitAvail ==
    /\ \E cap \in 1..MaxAvailCap :
         slots = CreatedSlots(DayTiles(1, 540, 600, 30), 1, cap, AdminId)
    /\ bookings \in Ledgers
    /\ nextSlotId = 3
    /\ nextBookingId = Cardinality(bookings) + 1
    /\ pc = [t \in Sessions |-> "idle"]
    /\ a_slot = [t \in Sessions |-> 0]
    /\ a_user = [t \in Sessions |-> 0]
    /\ capacity = [t \in Sessions |-> 0]
    /\ result = [t \in Sessions |-> "none"]
    /\ AuxInit

\* "Cancel booking" with the id of any row
AvailCancel(t) == \E bid \in 1..MaxRows : cancel_booking(t, bid)

NextAvail == \E t \in Sessions : AvailCancel(t)

SpecAvail == InitAvail /\ [][NextAvail]_vars

\* ---- the tiling of "Create slots" over more daily windows ----
TileStarts == {540, 570}
TileEnds == {540, 600, 615}
TileDurations == {30, 45}

TileForms ==
    [sd : Days, ed : Days, st : TileStarts, et : TileEnds, dur : TileDurations,
     cap : Capacities, dow : DaysOfWeekInputs]

\* an empty database and a filled-in form
InitTiles ==
    /\ slots = {}
    /\ bookings = {}
    /\ nextSlotId = 1
    /\ nextBookingId = 1
    /\ pc = [t \in Sessions |-> "idle"]
    /\ a_slot = [t \in Sessions |-> 0]
    /\ a_user = [t \in Sessions |-> 0]
    /\ capacity = [t \in Sessions |-> 0]
    /\ result = [t \in Sessions |-> "none"]
    /\ form \in TileForms
    /\ created = NoReport
    /\ EnvInit

\* "Create slots" is pressed with the values of the form; the message stays
\* on the page
TileCreate(t) ==
    /\ create_slots(t, form)
    /\ nextSlotId' - 1 <= MaxTileSlots
    /\ created' = CreatedCount(form)
    /\ UNCHANGED <<form, settings, mail, connected, accounts>>

\* the admin's session submits the form, any number of times
NextTiles == TileCreate(1)

SpecTiles == InitTiles /\ [][NextTiles]_vars

\* ---- properties ----
SlotIds(sl) == {s.id : s \in sl}

CapacityOf(sl, sid) == (CHOOSE s \in sl : s.id = sid).capacity

\* the step of session t in which its book_slot call returns
Returns(t) == pc[t] # "bk_ret" /\ pc'[t] = "bk_ret"

Called(t) == a_user[t] # 0

DistinctUsers ==
    \A t, u \in Sessions : (t # u /\ Called(t) /\ Called(u)) => a_user[t] # a_user[u]

AllReturned == \A t \in Sessions : pc[t] = "bk_ret"

\* C1: when the sessions race, each with its own user, for the slot of
\* capacity 1, the slot never holds more than one booked row, and once all
\* calls have returned exactly one returned "Booked" and all the others
\* "Slot is full".
C1_ExactlyOneBooks ==
    (CapacityOf(slots, 1) = 1 /\ DistinctUsers) =>
        /\ CountBooked(bookings, 1) <= 1
        /\ AllReturned =>
             /\ Cardinality({t \in Sessions : result[t] = "Booked"}) = 1
             /\ Cardinality({t \in Sessions : result[t] = "Slot is full"}) = NSessions - 1

\* C2: with one operation at a time, no slot ever has more booked rows than
\* its capacity.
C2_CapacityRespected ==
    \A s \in slots : CountBooked(bookings, s.id) <= s.capacity

\* a call on a slot that is exactly full was turned away
C2_Witness ==
    \E t \in Sessions :
        /\ pc[t] = "bk_ret"
        /\ result[t] = "Slot is full"
        /\ \E s \in slots : s.id = a_slot[t] /\ s.capacity = 2
                            /\ CountBooked(bookings, s.id) = s.capacity

\* C3: with one operation at a time, a (slot, user) pair never has two booked
\* rows, and a book_slot call by a user who already holds a booked row in a
\* slot with free capacity returns the duplicate-booking message.
C3_OnePerUser ==
    /\ [](\A sid \in 1..MaxSlots, uid \in Users : CountUserBooked(bookings, sid, uid) <= 1)
    /\ [][\A t \in Sessions :
            (/\ Returns(t)
             /\ a_slot'[t] \in SlotIds(slots)
             /\ CountBooked(bookings, a_slot'[t]) < CapacityOf(slots, a_slot'[t])
             /\ CountUserBooked(bookings, a_slot'[t], a_user'[t]) > 0)
            => result'[t] = "You already have a booking for this slot"]_vars

\* the second call of a user on a slot that still has a free seat came back
C3_Witness ==
    \E t \in Sessions :
        /\ pc[t] = "bk_ret"
        /\ result[t] = "You already have a booking for this slot"
        /\ a_slot[t] \in SlotIds(slots)
        /\ CountBooked(bookings, a_slot[t]) < CapacityOf(slots, a_slot[t])
        /\ CountUserBooked(bookings, a_slot[t], a_user[t]) = 1

\* C4: when two calls of the same user race for a slot of capacity >= 2, the
\* slot never holds two booked rows of that user.
C4_NoDoubleBooking ==
    CapacityOf(slots, 1) >= 2 =>
        \A uid \in Users : CountUserBooked(bookings, 1, uid) <= 1

\* C5: book_slot decides in the order slot-exists, capacity, duplicate: a
\* missing slot gives "Slot not found"; an existing full slot gives "Slot is
\* full" whether or not the caller is booked in it; the duplicate message is
\* returned only for a slot with free capacity in which the caller is booked.
C5_ValidationOrder ==
    [][\A t \in Sessions : Returns(t) =>
         LET sid == a_slot'[t]
             uid == a_user'[t]
             full == CountBooked(bookings, sid) >= CapacityOf(slots, sid)
             own == CountUserBooked(bookings, sid, uid) > 0
         IN /\ sid \notin SlotIds(slots) => result'[t] = "Slot not found"
            /\ (sid \in SlotIds(slots) /\ full) => result'[t] = "Slot is full"
            /\ result'[t] = "You already have a booking for this slot"
                 => (sid \in SlotIds(slots) /\ ~full /\ own)]_vars

\* a user booked in a full slot asked again and was told the slot is full
C5_Witness ==
    \E t \in Sessions :
        /\ pc[t] = "bk_ret"
        /\ result[t] = "Slot is full"
        /\ a_slot[t] \in SlotIds(slots)
        /\ CountUserBooked(bookings, a_slot[t], a_user[t]) > 0

AvailableOf(sl, bk, sid) == slot_available_seats(bk, sid, CapacityOf(sl, sid))

\* C6: cancel_booking(b) of a booked row b changes only b's status: all other
\* rows and all slots stay as they are, and the free seats of b's slot go up
\* by exactly 1; of an already canceled row, the free seats do not change.
C6_CancelFrame ==
    [][\A t \in Sessions, bid \in 1..MaxBookings : cancel_booking(t, bid) =>
         /\ slots' = slots
         /\ \A b \in bookings : b.id # bid => b \in bookings'
         /\ \A c \in bookings' : c.id # bid => c \in bookings
         /\ \A b \in bookings : (b.id = bid /\ b.slot_id \in SlotIds(slots)) =>
              AvailableOf(slots', bookings', b.slot_id)
                = AvailableOf(slots, bookings, b.slot_id)
                  + (IF b.status = "booked" THEN 1 ELSE 0)]_vars

\* C7: a canceled booking is never booked again, every booking starts as
\* booked, and the only change of a status is from booked to canceled.
C7_StatusOneWay ==
    [][/\ \A b \in bookings, c \in bookings' :
            (c.id = b.id /\ c.status # b.status) =>
                (b.status = "booked" /\ c.status = "canceled")
       /\ \A c \in bookings' :
            (\A b \in bookings : b.id # c.id) => c.status = "booked"]_vars

\* a user canceled and booked the same slot again: the old row stays canceled
C7_Witness ==
    \E b \in bookings, c \in bookings :
        /\ b.status = "canceled" /\ c.status = "booked"
        /\ b.slot_id = c.slot_id /\ b.user_id = c.user_id /\ b.id < c.id

\* C8: cancel_booking is idempotent: for every id, also of a canceled row or
\* of no row, canceling once more after a cancel changes nothing, and
\* canceling an already canceled row leaves the whole state unchanged.
C8_CancelIdempotent ==
    /\ [](\A bid \in 1..MaxBookings :
            /\ UpdateCanceled(UpdateCanceled(bookings, bid), bid) = UpdateCanceled(bookings, bid)
            /\ (\A b \in bookings : b.id = bid => b.status = "canceled")
                 => UpdateCanceled(bookings, bid) = bookings)
    /\ [][\A t \in Sessions, bid \in 1..MaxBookings : cancel_booking(t, bid) =>
            /\ UpdateCanceled(bookings', bid) = bookings'
            /\ (\A b \in bookings : b.id = bid => b.status = "canceled") => UNCHANGED vars]_vars

\* a row has been canceled while another row is still booked
C8_Witness ==
    /\ \E b \in bookings : b.status = "canceled"
    /\ \E b \in bookings : b.status = "booked"

ListedSlotIds(d) ==
    LET l == get_slots_by_date(slots, bookings, d) IN {l[i].id : i \in 1..Len(l)}

ListedBookingSlots ==
    LET l == list_bookings(slots, bookings, FALSE, AdminId) IN {l[i].slot_id : i \in 1..Len(l)}

\* slot ids that were issued and whose slot has been removed
RemovedSlots == {sid \in 1..(nextSlotId - 1) : sid \notin SlotIds(slots)}

\* C9: once remove_slot(s) has completed, s is not in the slots table, no
\* booking row references s, no listing of slots of any date and no listing of
\* bookings shows s, at any later time; the other slots and the bookings of
\* other slots are as they were.
C9_RemoveSlot ==
    /\ [](\A sid \in RemovedSlots :
            /\ \A b \in bookings : b.slot_id # sid
            /\ \A d \in Days : sid \notin ListedSlotIds(d)
            /\ sid \notin ListedBookingSlots)
    /\ [][\A t \in Sessions :
            /\ RemoveBookings(t) =>
                 /\ slots' = slots
                 /\ \A b \in bookings : b.slot_id # a_slot'[t] => b \in bookings'
                 /\ bookings' \subseteq bookings
            /\ RemoveSlot(t) =>
                 /\ a_slot[t] \notin SlotIds(slots')
                 /\ \A s \in slots : s.id # a_slot[t] => s \in slots'
                 /\ slots' \subseteq slots
                 /\ bookings' = bookings]_vars

\* a slot that had a canceled booking is gone, another slot keeps its booking
C9_Witness ==
    /\ RemovedSlots # {}
    /\ Cardinality(bookings) < nextBookingId - 1
    /\ \E b \in bookings : b.slot_id \in SlotIds(slots)

\* C10: every booking row references a slot that is in the slots table, in
\* every state, also between the two statements of remove_slot and when a
\* book_slot call on the slot runs at the same time as remove_slot.
C10_NoOrphans ==
    \A b \in bookings : b.slot_id \in SlotIds(slots)

\* booked and canceled rows of a slot, counted from the ledger row by row
RowsOf(sid) == {b \in bookings : b.slot_id = sid}

NotCanceled(sid) == RowsOf(sid) \ {b \in bookings : b.status = "canceled"}

CanceledOf(sid) == RowsOf(sid) \ {b \in bookings : b.status = "booked"}

\* C11: for every slot and every ledger, the free seats are capacity minus
\* the number of booked rows of the slot, and 0 where that is negative:
\* canceled rows do not count, the result is never negative, and the
\* `available` of every listed slot is this value for the ledger that is read.
C11_AvailableSeats ==
    \A s \in slots :
        LET n == Cardinality(NotCanceled(s.id))
            free == IF s.capacity - n > 0 THEN s.capacity - n ELSE 0
        IN /\ slot_available_seats(bookings, s.id, s.capacity) = free
           /\ slot_available_seats(bookings, s.id, s.capacity) >= 0
           /\ \A d \in Days :
                LET l == get_slots_by_date(slots, bookings, d)
                IN \A i \in 1..Len(l) : l[i].id = s.id => l[i].available = free

\* a slot with more booked rows than seats that also has a canceled row
C11_Witness ==
    \E s \in slots :
        /\ Cardinality(NotCanceled(s.id)) > s.capacity
        /\ CanceledOf(s.id) # {}
        /\ \E i \in 1..Len(get_slots_by_date(slots, bookings, 1)) :
             get_slots_by_date(slots, bookings, 1)[i].id = s.id

\* C12 as stated: capacity 3 with 2 booked rows and 1 canceled row gives 2.
C12_TwoBookedOneCanceled ==
    \A s \in slots :
        (s.capacity = 3 /\ Cardinality(NotCanceled(s.id)) = 2
                        /\ Cardinality(CanceledOf(s.id)) = 1)
        => slot_available_seats(bookings, s.id, s.capacity) = 2

\* C12 amended: capacity 3 with 2 booked rows and 1 canceled row gives 1;
\* it gives 2 when 2 bookings were made and 1 of them has been canceled
\* (1 booked row, 1 canceled row).
C12_CanceledFreesSeat ==
    \A s \in slots :
        /\ (s.capacity = 3 /\ Cardinality(NotCanceled(s.id)) = 2
                           /\ Cardinality(CanceledOf(s.id)) = 1)
           => slot_available_seats(bookings, s.id, s.capacity) = 1
        /\ (s.capacity = 3 /\ Cardinality(NotCanceled(s.id)) = 1
                           /\ Cardinality(CanceledOf(s.id)) = 1)
           => slot_available_seats(bookings, s.id, s.capacity) = 2

\* the slot of capacity 3 holds 2 booked rows and 1 canceled row
C12_Witness ==
    \E s \in slots :
        /\ s.capacity = 3
        /\ Cardinality(NotCanceled(s.id)) = 2
        /\ Cardinality(CanceledOf(s.id)) = 1

\* the days of [sd, ed] whose weekday is selected, all days for an empty selection
SelectedDays(sd, ed, dow) == {d \in sd..ed : dow = {} \/ Weekday(d) \in dow}

\* slot k of day d: [st + k*dur, st + (k+1)*dur), kept when its end <= et
ExpectedTiles(sd, ed, st, et, dur, dow) ==
    {[start_ts |-> <<d, st + k * dur>>, end_ts |-> <<d, st + (k + 1) * dur>>] :
        d \in SelectedDays(sd, ed, dow),
        k \in {j \in 0..(TimeMaxMinute \div dur) : st + (j + 1) * dur <= et}}

Window(s) == [start_ts |-> s.start_ts, end_ts |-> s.end_ts]

\* C13: a "Create slots" call with the form (sd, ed, st, et, dur, dow) adds,
\* for every day of [sd, ed] whose weekday is selected (every day when the
\* selection is empty), exactly the slots [st + k*dur, st + (k+1)*dur),
\* k = 0, 1, 2, ..., with end <= et, and nothing else; the new slots of a day
\* do not overlap; and the number of create_slot calls (one id of the
\* sequence and one increment of `created` each) is the number of slots
\* inserted.  A 1-day range, 09:00-10:00, duration 30 gives exactly
\* [09:00, 09:30) and [09:30, 10:00).
C13_Tiling ==
    [][LET new == slots' \ slots
           exp == IF form.ed < form.sd THEN {}
                  ELSE ExpectedTiles(form.sd, form.ed, form.st, form.et, form.dur, form.dow)
       IN /\ {Window(s) : s \in new} = exp
          /\ slots \subseteq slots'
          /\ nextSlotId' - nextSlotId = Cardinality(new)
          /\ Cardinality(new) = Cardinality(exp)
          /\ created' = (IF form.ed < form.sd THEN DateError ELSE Cardinality(new))
          /\ \A a \in new, b \in new :
               (a # b /\ a.start_ts[1] = b.start_ts[1])
               => (a.end_ts[2] <= b.start_ts[2] \/ b.end_ts[2] <= a.start_ts[2])
          /\ (form.sd = form.ed /\ form.st = 540 /\ form.et = 600 /\ form.dur = 30
              /\ form.dow = {})
             => {Window(s) : s \in new}
                = {[start_ts |-> <<form.sd, 540>>, end_ts |-> <<form.sd, 570>>],
                   [start_ts |-> <<form.sd, 570>>, end_ts |-> <<form.sd, 600>>]}]_vars

\* the form 09:00-10:15 in slots of 30 minutes, day 2 only, has been
\* submitted: two slots on day 2, none on day 1, the last 15 minutes unused
C13_Witness ==
    /\ created = 2
    /\ form.sd = 1 /\ form.ed = 2 /\ form.dow = {1}
    /\ form.st = 540 /\ form.et = 615 /\ form.dur = 30
    /\ {Window(s) : s \in slots}
       = {[start_ts |-> <<2, 540>>, end_ts |-> <<2, 570>>],
          [start_ts |-> <<2, 570>>, end_ts |-> <<2, 600>>]}

\* C14: every slot in the table has capacity >= 1 and an end strictly
\* after its start, whatever was submitted in the "Create slots" form, the
\* only caller of create_slot.
C14_SlotInvariant ==
    \A s \in slots :
        /\ s.capacity >= 1
        /\ TsLeq(s.start_ts, s.end_ts)
        /\ s.start_ts # s.end_ts

\* a form with the smallest capacity has been submitted and has created slots
C14_Witness ==
    /\ form.cap = 1
    /\ created >= 1
    /\ slots # {}
    /\ \A s \in slots : s.capacity = 1

\* send_email_smtp returns in this step of session t
Notified(t) == pc[t] # "notified" /\ pc'[t] = "notified"

\* C15: send_email_smtp is called only for a "Book now" whose book_slot has
\* returned (True, "Booked") with the row committed; whatever it returns
\* ("Email sent", "SMTP not configured", an error) the row just inserted is
\* in the ledger with status booked afterwards, and no booking and no slot
\* is changed by the call.
C15_NotifyAfterCommit ==
    [][\A t \in Sessions :
         /\ Notified(t)
            => /\ pc[t] = "bk_ret" /\ result[t] = "Booked"
               /\ \E b \in bookings :
                    /\ b.id = nextBookingId - 1
                    /\ b.slot_id = a_slot[t] /\ b.user_id = a_user[t]
                    /\ b.status = "booked"
                    /\ b \in bookings'
               /\ bookings' = bookings
               /\ slots' = slots
         /\ mail'[t] # mail[t] => (Notified(t) \/ mail'[t] = "none")]_vars

\* a confirmation failed after a connection attempt and the booking is booked
C15_Witness ==
    \E t \in Sessions :
        /\ pc[t] = "notified" /\ mail[t] = "error" /\ connected[t]
        /\ \E b \in bookings :
             b.slot_id = a_slot[t] /\ b.user_id = a_user[t] /\ b.status = "booked"

\* the texts stored for key k, read row by row
Stored(k) == {r.value : r \in {q \in settings : q.key = k}}

\* key k has no row or an empty text
Missing(k) == \A r \in settings : r.key = k => r.value = ""

\* C16: when at least one of smtp_host, smtp_port, smtp_user, smtp_pass,
\* from_email has no row or an empty value when send_email_smtp is called,
\* it returns "SMTP not configured" and smtplib.SMTP is not called; a
\* connection is attempted only when all five are present; and the values
\* read are those last written by set_setting (one row per key).
C16_NotConfigured ==
    [][\A t \in Sessions :
         Notified(t)
         => /\ (\E k \in SmtpKeys : Missing(k))
               => (mail'[t] = "SMTP not configured" /\ ~connected'[t])
            /\ connected'[t] => \A k \in SmtpKeys : ~Missing(k)
            /\ mail'[t] = "SMTP not configured" => \E k \in SmtpKeys : Missing(k)
            /\ \A k \in SmtpKeys : Cardinality({r \in settings : r.key = k}) <= 1]_vars

\* the confirmation was refused with the host saved and the sender left blank
C16_Witness ==
    \E t \in Sessions :
        /\ pc[t] = "notified" /\ mail[t] = "SMTP not configured" /\ ~connected[t]
        /\ Stored("smtp_host") = {"x"}
        /\ Stored("from_email") = {""}

\* the rows create_user inserts in this step
NewUsers == users' \ users

\* C17: while the users table is empty no script run is past the first-run
\* check (no login, registration, slot creation, booking, cancellation or
\* listing), the only account created then is an admin, registration never
\* creates an admin, and the table never holds more than one admin.
C17_Bootstrap ==
    /\ [](\A t \in Sessions : pc[t] = "app" => users # {})
    /\ [](Cardinality({u \in users : u.is_admin}) <= 1)
    /\ [][/\ users = {} => \A u \in NewUsers : u.is_admin
          /\ \A t \in Sessions :
               (pc[t] = "app" /\ pc'[t] = "u_ret") => \A u \in NewUsers : ~u.is_admin]_vars

\* two texts are the same up to the case of their letters
SameIgnoringCase(e1, e2) ==
    /\ Len(e1) = Len(e2)
    /\ \A i \in 1..Len(e1) :
         \/ e1[i] = e2[i]
         \/ {e1[i], e2[i]} \in {{"a", "A"}, {"b", "B"}}

\* create_user returns in this step of session t
UserReturns(t) == pc[t] # "u_ret" /\ pc'[t] = "u_ret"

\* C18: stored emails hold no capital letter and no two accounts have
\* emails that are equal up to case; an account creation whose typed email,
\* up to case, is the email of an account fails with "Email already
\* registered" and leaves the users table unchanged, and any other adds
\* one account with the lowercased email.
C18_UniqueEmail ==
    /\ [](\A u \in users : \A i \in 1..Len(u.email) : u.email[i] \notin {"A", "B"})
    /\ [](\A u \in users, v \in users : SameIgnoringCase(u.email, v.email) => u = v)
    /\ [][\A t \in Sessions :
            UserReturns(t)
            => IF \E u \in users : SameIgnoringCase(u.email, Strip(a_email'[t]))
               THEN result'[t] = "Email already registered" /\ users' = users
               ELSE /\ result'[t] = "User created"
                    /\ Cardinality(NewUsers) = 1
                    /\ users \subseteq users'
                    /\ \A u \in NewUsers : SameIgnoringCase(u.email, Strip(a_email'[t]))]_vars

\* "A" was typed while the account "a" exists, and the call was refused
C18_Witness ==
    \E t \in Sessions :
        /\ pc[t] = "u_ret" /\ a_email[t] = <<"A">>
        /\ result[t] = "Email already registered"
        /\ \E u \in users : u.email = <<"a">>

\* the positions of a session inside book_slot and at its return
BookPcs == {"bk_count", "bk_dup", "bk_insert", "bk_ret"}

\* the step of book_slot that inserts the row and returns (True, "Booked")
InsertsBooked(t) ==
    pc[t] = "bk_insert" /\ pc'[t] = "bk_ret" /\ result'[t] = "Booked"

\* C19: with calls run one at a time, every step of a book_slot call other
\* than the insert that returns "Booked" leaves slots and bookings as they
\* were (no row inserted, no status changed, no slot changed) and leaves the
\* free seats of every slot the same; a call that returns "Slot not found",
\* "Slot is full" or "You already have a booking for this slot" consists of
\* such steps only.
C19_FailureFrame ==
    [][\A t \in Sessions :
         /\ ((pc[t] \in BookPcs \/ pc'[t] \in BookPcs) /\ ~InsertsBooked(t))
            => /\ UNCHANGED db
               /\ \A s \in slots : AvailableOf(slots', bookings', s.id)
                                   = AvailableOf(slots, bookings, s.id)
         /\ (Returns(t) /\ result'[t] # "Booked") => pc[t] # "bk_insert"]_vars

\* a call has returned "Slot is full" for a slot that holds a booked row
C19_Witness ==
    \E t \in Sessions :
        /\ pc[t] = "bk_ret"
        /\ result[t] = "Slot is full"
        /\ CountBooked(bookings, a_slot[t]) >= 1

\* book_slot's three checks, evaluated on one state of the database
WouldBook(sl, bk, sid, uid) ==
    /\ SlotRows(sl, sid) # {}
    /\ ~SlotIsFull(CountBooked(bk, sid), CapacityOf(sl, sid))
    /\ ~AlreadyBooked(CountUserBooked(bk, sid, uid))

\* the row b goes from booked to canceled in this step
Canceled(b) ==
    /\ b.status = "booked"
    /\ [b EXCEPT !.status = "canceled"] \in bookings'

\* C20: when a booked booking of a full slot is canceled, the slot is no
\* longer full, and book_slot's checks pass on the state after the cancel
\* for every user without a booked booking in the slot, the user whose
\* booking was canceled included.
C20_CancelFreesCapacity ==
    [][\A b \in bookings :
         (/\ Canceled(b)
          /\ SlotRows(slots, b.slot_id) # {}
          /\ SlotIsFull(CountBooked(bookings, b.slot_id), CapacityOf(slots, b.slot_id)))
         => /\ ~SlotIsFull(CountBooked(bookings', b.slot_id), CapacityOf(slots', b.slot_id))
            /\ \A u \in Users :
                 CountUserBooked(bookings', b.slot_id, u) = 0
                 => WouldBook(slots', bookings', b.slot_id, u)]_vars

TypeOK ==
    /\ nextSlotId \in 1..(MaxSlots + 1)
    /\ nextBookingId \in 1..(MaxBookings + 1)
    /\ \A s \in slots : s.id \in 1..MaxSlots /\ s.capacity \in Capacities
    /\ \A b \in bookings : b.id \in 1..MaxBookings /\ b.status \in {"booked", "canceled"}
====
